---- MODULE Spec2Model ----
(***************************************************************************)
(* Model of the training driver of ProDA (train.py): train(), validation() *)
(* and validate().  The driver is one sequential thread; pc is its         *)
(* position.  The collaborators that train.py only calls (dataset          *)
(* provider, CustomModel, runningScore, averageMeter, torch.save/load) are *)
(* modelled by the effect the driver can observe.                          *)
(***************************************************************************)
EXTENDS Integers, Sequences, FiniteSets

\* ---------------------------------------------------------------- bounds
MaxEpochs == 2          \* opt.epochs ranges over 1..MaxEpochs
MaxTargetBatches == 2   \* len(datasets.target_train_loader)
MaxValidBatches == 1    \* len(datasets.target_valid_loader)
MaxInterval == 2        \* opt.print_interval, opt.val_interval
MaxIoU == 2             \* mean IoU is drawn from 0..MaxIoU
MaxDur == 1             \* a measured duration is one of 1..MaxDur ticks

Stages == {"warm_up", "stage1", "stage2", "unknown"}
Absent == "absent"
ProtoFiles == {Absent, "prototypes"}
NoCkpt == [iter |-> -1, best_iou |-> -1, objective_vectors |-> "none", full |-> FALSE]

VARIABLES
    opt,                \* the parsed configuration (read only)
    datasets,           \* lengths of the target train / valid loaders
    protoFile,          \* the prototype file on disk, or Absent
    pc,                 \* position of the driver
    epoch,              \* loop variable of line 52
    tpos,               \* batches already drawn from the target loader in this epoch
    vpos,               \* batches already seen by validate()
    iter,               \* model.iter
    best_iou,           \* model.best_iou
    objective_vectors,  \* model.objective_vectors
    mode,               \* "train" or "eval"
    infer_time_meter,
    loader_time_meter,
    iters,              \* parameter iters of validation()
    score,              \* score["Mean IoU"] of the running validation call
    currentCkpt,        \* contents of ..._current_model.pkl
    bestCkpt,           \* contents of ..._best_model.pkl
    \* ---- observation (history) variables
    loopIter,           \* number of loop iterations started (1-based index of the current one)
    nSrc, nZero, nSteps, nSched,   \* calls of source next(), optimizer_zerograd, stage steps, scheduler_step
    stepCalls,          \* stage-step kinds invoked in the current iteration
    kindsUsed,          \* stage-step kinds invoked in the run
    stepModes,          \* modes in which a stage step ran
    inferModes,         \* modes in which an inference pass of validate() ran
    valCalls,           \* loop iterations in which validation() was called
    logLines,           \* emitted loss-log lines
    lastLogIter,        \* model.iter at the last log emission
    callCur, callBest,  \* checkpoint writes of the running validation call
    entryBest,          \* model.best_iou on entry to the running validation call
    maxSeen,            \* maximum of the initial best_iou and all mean IoUs computed
    protoReads          \* torch.load calls on the prototype file

cfgVars == <<opt, datasets, protoFile>>
loopVars == <<epoch, tpos, loopIter>>
meterVars == <<infer_time_meter, loader_time_meter, lastLogIter>>
valVars == <<vpos, iters, score, callCur, callBest, entryBest, maxSeen, inferModes, valCalls>>
ckptVars == <<currentCkpt, bestCkpt, best_iou>>
stepVars == <<nSrc, nZero, nSteps, nSched, stepCalls, kindsUsed, stepModes>>
vars == <<cfgVars, loopVars, meterVars, valVars, ckptVars, stepVars,
          pc, iter, objective_vectors, mode, logLines, protoReads>>

\* ------------------------------------------------------- averageMeter
\* metrics.averageMeter keeps (val, sum, count, avg); durations are integer
\* ticks and avg is the integer quotient.
MeterReset == [val |-> 0, avg |-> 0, sum |-> 0, count |-> 0]

MeterUpdate(m, v) ==
    [val |-> v, sum |-> m.sum + v, count |-> m.count + 1,
     avg |-> (m.sum + v) \div (m.count + 1)]

\* --------------------------------------------------------------- Init
\* State after create_dataset, the CustomModel constructor and the two
\* averageMeter constructors (lines 27-38).  The constructor's best_iou is
\* either below every score (no prior best) or a value carried by a resumed
\* checkpoint; a freshly built torch module is in training mode.
Init ==
    /\ opt \in [stage : Stages, epochs : 1..MaxEpochs,
                print_interval : 1..MaxInterval, val_interval : 1..MaxInterval]
    /\ datasets \in [target : 1..MaxTargetBatches, valid : 1..MaxValidBatches]
    /\ protoFile \in ProtoFiles
    /\ pc = "load_anchors"
    /\ epoch = 0 /\ tpos = 0 /\ vpos = 0 /\ loopIter = 0
    /\ iter = 0
    /\ best_iou \in {-1, MaxIoU}
    /\ maxSeen = best_iou
    /\ entryBest = best_iou
    /\ objective_vectors = "ctor"
    /\ mode = "train"
    /\ infer_time_meter = MeterReset
    /\ loader_time_meter = MeterReset
    /\ lastLogIter = 0
    /\ iters = 0 /\ score = -1
    /\ currentCkpt = NoCkpt /\ bestCkpt = NoCkpt
    /\ nSrc = 0 /\ nZero = 0 /\ nSteps = 0 /\ nSched = 0
    /\ stepCalls = <<>> /\ kindsUsed = {} /\ stepModes = {} /\ inferModes = {}
    /\ valCalls = {} /\ logLines = <<>>
    /\ callCur = 0 /\ callBest = 0
    /\ protoReads = 0

\* ------------------------------------------------ train(): startup
NeedsAnchorsAnyStage(stage) == TRUE

NeedsAnchors(stage) == stage = "stage1"

Tensor(contents) == <<"tensor", contents>>

LoadAnchorsOk ==
    /\ pc = "load_anchors"
    /\ NeedsAnchors(opt.stage)
    /\ protoFile # Absent
    /\ protoReads' = protoReads + 1
    /\ objective_vectors' = Tensor(protoFile)
    /\ pc' = "begin"
    /\ UNCHANGED <<cfgVars, loopVars, meterVars, valVars, ckptVars, stepVars,
                   iter, mode, logLines>>

LoadAnchorsFail ==
    /\ pc = "load_anchors"
    /\ NeedsAnchors(opt.stage)
    /\ protoFile = Absent
    /\ protoReads' = protoReads + 1
    /\ pc' = "failed"
    /\ UNCHANGED <<cfgVars, loopVars, meterVars, valVars, ckptVars, stepVars,
                   iter, objective_vectors, mode, logLines>>

SkipAnchors ==
    /\ pc = "load_anchors"
    /\ ~NeedsAnchors(opt.stage)
    /\ pc' = "begin"
    /\ UNCHANGED <<cfgVars, loopVars, meterVars, valVars, ckptVars, stepVars,
                   iter, objective_vectors, mode, logLines, protoReads>>

BeginTraining ==
    /\ pc = "begin"
    /\ iter' = 0
    /\ epoch' = 0
    /\ pc' = "epoch_head"
    /\ UNCHANGED <<cfgVars, tpos, loopIter, meterVars, valVars, ckptVars, stepVars,
                   objective_vectors, mode, logLines, protoReads>>

\* ------------------------------------------------ train(): the loops
EpochHead ==
    /\ pc = "epoch_head"
    /\ IF epoch < opt.epochs
         THEN /\ tpos' = 0
              /\ pc' = "target_next"
         ELSE /\ tpos' = tpos
              /\ pc' = "done"
    /\ UNCHANGED <<cfgVars, epoch, loopIter, meterVars, valVars, ckptVars, stepVars,
                   iter, objective_vectors, mode, logLines, protoReads>>

TargetNext ==
    /\ pc = "target_next"
    /\ IF tpos < datasets.target
         THEN /\ tpos' = tpos + 1
              /\ loopIter' = loopIter + 1
              /\ stepCalls' = <<>>
              /\ epoch' = epoch
              /\ pc' = "source_next"
         ELSE /\ epoch' = epoch + 1
              /\ pc' = "epoch_head"
              /\ UNCHANGED <<tpos, loopIter, stepCalls>>
    /\ UNCHANGED <<cfgVars, meterVars, valVars, ckptVars,
                   nSrc, nZero, nSteps, nSched, kindsUsed, stepModes,
                   iter, objective_vectors, mode, logLines, protoReads>>

SourceNext ==
    /\ pc = "source_next"
    /\ nSrc' = nSrc + 1
    /\ pc' = "train_mode"
    /\ UNCHANGED <<cfgVars, loopVars, meterVars, valVars, ckptVars,
                   nZero, nSteps, nSched, stepCalls, kindsUsed, stepModes,
                   iter, objective_vectors, mode, logLines, protoReads>>

TrainModeFirstOnly ==
    /\ pc = "train_mode"
    /\ mode' = IF loopIter = 1 THEN "train" ELSE mode
    /\ pc' = "zerograd"
    /\ UNCHANGED <<cfgVars, loopVars, meterVars, valVars, ckptVars, stepVars,
                   iter, objective_vectors, logLines, protoReads>>

TrainMode ==
    /\ pc = "train_mode"
    /\ mode' = "train"
    /\ pc' = "zerograd"
    /\ UNCHANGED <<cfgVars, loopVars, meterVars, valVars, ckptVars, stepVars,
                   iter, objective_vectors, logLines, protoReads>>

ZeroGrad ==
    /\ pc = "zerograd"
    /\ nZero' = nZero + 1
    /\ pc' = "step"
    /\ UNCHANGED <<cfgVars, loopVars, meterVars, valVars, ckptVars,
                   nSrc, nSteps, nSched, stepCalls, kindsUsed, stepModes,
                   iter, objective_vectors, mode, logLines, protoReads>>

\* ------------------------------------------------ train(): stage dispatch
Invoke(kind) ==
    /\ stepCalls' = Append(stepCalls, kind)
    /\ kindsUsed' = kindsUsed \cup {kind}
    /\ stepModes' = stepModes \cup {mode}
    /\ nSteps' = nSteps + 1
    /\ pc' = "record"
    /\ UNCHANGED <<cfgVars, loopVars, meterVars, valVars, ckptVars,
                   nSrc, nZero, nSched,
                   iter, objective_vectors, mode, logLines, protoReads>>

StepAdv ==
    /\ pc = "step"
    /\ opt.stage = "warm_up"
    /\ Invoke("step_adv")

Step ==
    /\ pc = "step"
    /\ opt.stage # "warm_up"
    /\ opt.stage = "stage1"
    /\ Invoke("step")

StepDistillationNotWarmUp ==
    /\ pc = "step"
    /\ opt.stage # "warm_up"
    /\ Invoke("step_distillation")

StepDistillation ==
    /\ pc = "step"
    /\ opt.stage # "warm_up"
    /\ opt.stage # "stage1"
    /\ Invoke("step_distillation")

\* ------------------------------------------------ train(): record result
Durations == 1..MaxDur

Record ==
    /\ pc = "record"
    /\ iter' = iter + 1
    /\ \E d \in Durations : infer_time_meter' = MeterUpdate(infer_time_meter, d)
    /\ \E d \in Durations : loader_time_meter' = MeterUpdate(loader_time_meter, d)
    /\ pc' = "log"
    /\ UNCHANGED <<cfgVars, loopVars, lastLogIter, valVars, ckptVars, stepVars,
                   objective_vectors, mode, logLines, protoReads>>

PrintDue(it) == (it + 1) % opt.print_interval = 0

ShownIter(it) == it + 1

LogEmitKeepLoaderMeter ==
    /\ pc = "log"
    /\ PrintDue(iter)
    /\ logLines' = Append(logLines,
                          [loop |-> loopIter, epoch |-> epoch + 1, shown |-> ShownIter(iter),
                           inferCount |-> infer_time_meter.count,
                           loadCount |-> loader_time_meter.count])
    /\ infer_time_meter' = MeterReset
    /\ lastLogIter' = iter
    /\ pc' = "eval_check"
    /\ UNCHANGED <<cfgVars, loopVars, valVars, ckptVars, stepVars, loader_time_meter,
                   iter, objective_vectors, mode, protoReads>>

LogEmit ==
    /\ pc = "log"
    /\ PrintDue(iter)
    /\ logLines' = Append(logLines,
                          [loop |-> loopIter, epoch |-> epoch + 1, shown |-> ShownIter(iter),
                           inferCount |-> infer_time_meter.count,
                           loadCount |-> loader_time_meter.count])
    /\ infer_time_meter' = MeterReset
    /\ loader_time_meter' = MeterReset
    /\ lastLogIter' = iter
    /\ pc' = "eval_check"
    /\ UNCHANGED <<cfgVars, loopVars, valVars, ckptVars, stepVars,
                   iter, objective_vectors, mode, protoReads>>

LogSkip ==
    /\ pc = "log"
    /\ ~PrintDue(iter)
    /\ pc' = "eval_check"
    /\ UNCHANGED <<cfgVars, loopVars, meterVars, valVars, ckptVars, stepVars,
                   iter, objective_vectors, mode, logLines, protoReads>>

\* ------------------------------------------------ train(): evaluation
ValDue(it) == (it + 1) % opt.val_interval = 0

CallValidation ==
    /\ pc = "eval_check"
    /\ ValDue(iter)
    /\ iters' = iter
    /\ valCalls' = valCalls \cup {loopIter}
    /\ callCur' = 0 /\ callBest' = 0
    /\ entryBest' = best_iou
    /\ pc' = "val_eval"
    /\ UNCHANGED <<cfgVars, loopVars, meterVars, ckptVars, stepVars,
                   vpos, score, maxSeen, inferModes,
                   iter, objective_vectors, mode, logLines, protoReads>>

SkipValidation ==
    /\ pc = "eval_check"
    /\ ~ValDue(iter)
    /\ pc' = "sched"
    /\ UNCHANGED <<cfgVars, loopVars, meterVars, valVars, ckptVars, stepVars,
                   iter, objective_vectors, mode, logLines, protoReads>>

SchedulerStepAfterValidationOnly ==
    /\ pc = "sched"
    /\ nSched' = IF ValDue(iter) THEN nSched + 1 ELSE nSched
    /\ pc' = "target_next"
    /\ UNCHANGED <<cfgVars, loopVars, meterVars, valVars, ckptVars,
                   nSrc, nZero, nSteps, stepCalls, kindsUsed, stepModes,
                   iter, objective_vectors, mode, logLines, protoReads>>

SchedulerStep ==
    /\ pc = "sched"
    /\ nSched' = nSched + 1
    /\ pc' = "target_next"
    /\ UNCHANGED <<cfgVars, loopVars, meterVars, valVars, ckptVars,
                   nSrc, nZero, nSteps, stepCalls, kindsUsed, stepModes,
                   iter, objective_vectors, mode, logLines, protoReads>>

\* ------------------------------------------------ validation()
ValEval ==
    /\ pc = "val_eval"
    /\ mode' = "eval"
    /\ vpos' = 0
    /\ pc' = "validate"
    /\ UNCHANGED <<cfgVars, loopVars, meterVars, ckptVars, stepVars,
                   iters, score, callCur, callBest, entryBest, maxSeen, inferModes, valCalls,
                   iter, objective_vectors, logLines, protoReads>>

ValidateBatch ==
    /\ pc = "validate"
    /\ vpos < datasets.valid
    /\ vpos' = vpos + 1
    /\ inferModes' = inferModes \cup {mode}
    /\ UNCHANGED <<cfgVars, loopVars, meterVars, ckptVars, stepVars,
                   iters, score, callCur, callBest, entryBest, maxSeen, valCalls,
                   pc, iter, objective_vectors, mode, logLines, protoReads>>

Max(a, b) == IF a >= b THEN a ELSE b

GetScores ==
    /\ pc = "validate"
    /\ vpos = datasets.valid
    /\ \E miou \in 0..MaxIoU :
         /\ score' = miou
         /\ maxSeen' = Max(maxSeen, miou)
    /\ pc' = "save_current"
    /\ UNCHANGED <<cfgVars, loopVars, meterVars, ckptVars, stepVars,
                   vpos, iters, callCur, callBest, entryBest, inferModes, valCalls,
                   iter, objective_vectors, mode, logLines, protoReads>>

CkptIter(its) == its + 1

SaveCurrent ==
    /\ pc = "save_current"
    /\ currentCkpt' = [iter |-> CkptIter(iters), best_iou |-> score,
                       objective_vectors |-> objective_vectors, full |-> FALSE]
    /\ callCur' = callCur + 1
    /\ pc' = "best_check"
    /\ UNCHANGED <<cfgVars, loopVars, meterVars, stepVars, bestCkpt, best_iou,
                   vpos, iters, score, callBest, entryBest, maxSeen, inferModes, valCalls,
                   iter, objective_vectors, mode, logLines, protoReads>>

IsBestStrict(miou, best) == miou > best

IsBestAlways(miou, best) == TRUE

IsBest(miou, best) == miou >= best

SaveBest ==
    /\ pc = "best_check"
    /\ IsBest(score, best_iou)
    /\ best_iou' = score
    /\ bestCkpt' = [iter |-> CkptIter(iters), best_iou |-> best_iou',
                    objective_vectors |-> objective_vectors, full |-> TRUE]
    /\ callBest' = callBest + 1
    /\ pc' = "val_return"
    /\ UNCHANGED <<cfgVars, loopVars, meterVars, stepVars, currentCkpt,
                   vpos, iters, score, callCur, entryBest, maxSeen, inferModes, valCalls,
                   iter, objective_vectors, mode, logLines, protoReads>>

SkipBest ==
    /\ pc = "best_check"
    /\ ~IsBest(score, best_iou)
    /\ pc' = "val_return"
    /\ UNCHANGED <<cfgVars, loopVars, meterVars, valVars, ckptVars, stepVars,
                   iter, objective_vectors, mode, logLines, protoReads>>

ValReturn ==
    /\ pc = "val_return"
    /\ pc' = "sched"
    /\ UNCHANGED <<cfgVars, loopVars, meterVars, valVars, ckptVars, stepVars,
                   iter, objective_vectors, mode, logLines, protoReads>>

\* ------------------------------------------------ specification
Next ==
    \/ LoadAnchorsOk \/ LoadAnchorsFail \/ SkipAnchors
    \/ BeginTraining \/ EpochHead \/ TargetNext \/ SourceNext
    \/ TrainMode \/ ZeroGrad
    \/ StepAdv \/ Step \/ StepDistillation
    \/ Record \/ LogEmit \/ LogSkip
    \/ CallValidation \/ SkipValidation
    \/ ValEval \/ ValidateBatch \/ GetScores
    \/ SaveCurrent \/ SaveBest \/ SkipBest \/ ValReturn
    \/ SchedulerStep

Spec == Init /\ [][Next]_vars

\* ------------------------------------------------ properties
PreStep == {"source_next", "train_mode", "zerograd", "step"}
InValidation == {"val_eval", "validate", "save_current", "best_check", "val_return"}
PostStep == {"record", "log", "eval_check", "sched"} \cup InValidation
LoopBoundary == {"target_next", "epoch_head", "done"}

\* C1: in every call of validation() the current checkpoint is written exactly
\* once, and the best checkpoint is written in that call if and only if the
\* mean IoU of the call is >= model.best_iou as it was on entry to the call.
CheckpointPolicy ==
    /\ callCur <= 1 /\ callBest <= 1
    /\ pc \in {"val_eval", "validate", "save_current"} => callCur = 0 /\ callBest = 0
    /\ pc = "best_check" => callCur = 1 /\ callBest = 0
    /\ pc = "val_return" => /\ callCur = 1
                            /\ callBest = 1 <=> score >= entryBest
                            /\ currentCkpt.best_iou = score

CheckpointPolicyTie ==
    /\ pc = "val_return"
    /\ score = entryBest
    /\ callCur = 1 /\ callBest = 1

\* C2: model.best_iou never decreases; it changes only in validation(), only to
\* the mean IoU just computed and only when that is >= the previous best; after
\* every validation it is the maximum of its initial value and all mean IoUs.
BestIouMonotone ==
    /\ [](pc \notin {"save_current", "best_check"} => best_iou = maxSeen)
    /\ [][/\ best_iou' >= best_iou
          /\ best_iou' # best_iou =>
                pc = "best_check" /\ best_iou' = score /\ score >= best_iou]_vars

BestIouKeptOnLowerScore ==
    /\ pc = "val_return"
    /\ bestCkpt # NoCkpt
    /\ score < best_iou
    /\ Cardinality(valCalls) >= 2

\* C3: validation() is called in loop iteration k (counted from 1) if and only
\* if k is a multiple of val_interval.
ValidationEveryValInterval ==
    pc = "sched" => (loopIter \in valCalls <=> loopIter % opt.val_interval = 0)

\* C4: a loss-log line is emitted in loop iteration k (counted from 1) if and
\* only if k is a multiple of print_interval, and the line shows iteration k.
LogEveryPrintInterval ==
    /\ pc = "eval_check" =>
          ((\E i \in 1..Len(logLines) : logLines[i].loop = loopIter)
              <=> loopIter % opt.print_interval = 0)
    /\ \A i \in 1..Len(logLines) : logLines[i].shown = logLines[i].loop

\* C5: the 'iter' field of the current and of the best checkpoint written by a
\* validation call equals the iteration count the call was made with, which is
\* the model's iteration counter at that moment.
CkptIterIsCallIter ==
    pc = "val_return" =>
        /\ iters = iter
        /\ currentCkpt.iter = iters
        /\ callBest = 1 => bestCkpt.iter = iters

\* C6: with stage 'stage1' an absent prototype file fails the run at startup,
\* before any training step, validation or checkpoint write; a present one is
\* loaded into model.objective_vectors before the first step; for any other
\* stage the file is never read and its absence does not fail the run.
PrototypeStartup ==
    /\ (opt.stage = "stage1" /\ protoFile = Absent) =>
          /\ pc \in {"load_anchors", "failed"}
          /\ nSteps = 0 /\ nSrc = 0 /\ valCalls = {}
          /\ currentCkpt = NoCkpt /\ bestCkpt = NoCkpt
    /\ (opt.stage = "stage1" /\ protoFile # Absent) =>
          /\ pc # "failed"
          /\ pc # "load_anchors" => objective_vectors = <<"tensor", protoFile>> /\ protoReads = 1
    /\ opt.stage # "stage1" =>
          protoReads = 0 /\ pc # "failed" /\ objective_vectors = "ctor"

PrototypeMissingFails ==
    /\ pc = "failed"
    /\ opt.stage = "stage1" /\ protoFile = Absent
    /\ protoReads = 1

\* C7: every iteration invokes exactly one stage step, of the kind the
\* configured stage selects: step_adv for 'warm_up', step for 'stage1',
\* step_distillation for any other value.
OneStepKindPerIteration ==
    LET expected == CASE opt.stage = "warm_up" -> "step_adv"
                      [] opt.stage = "stage1" -> "step"
                      [] OTHER -> "step_distillation"
    IN  /\ kindsUsed \subseteq {expected}
        /\ pc \in PreStep => stepCalls = <<>>
        /\ pc \in PostStep => stepCalls = <<expected>>
        /\ pc \in LoopBoundary /\ loopIter > 0 => stepCalls = <<expected>>
        /\ nSteps = IF pc \in PreStep THEN loopIter - 1 ELSE loopIter

UnknownStageDistills ==
    /\ pc = "sched"
    /\ opt.stage = "unknown"
    /\ loopIter >= 2
    /\ stepCalls = <<"step_distillation">>

\* C8: in every iteration gradients are zeroed before the stage step, the
\* iteration counter grows by one after it, and the scheduler is stepped once
\* as the last action; at the end of every iteration counter = stage steps =
\* scheduler steps = source batches drawn, and at termination the counter is
\* epochs x (batches of the target loader).
IterationAccounting ==
    /\ pc = "step" => nZero = nSteps + 1
    /\ pc \in {"source_next", "train_mode", "zerograd"} => nZero = nSteps
    /\ pc \in PostStep \cup LoopBoundary => nZero = nSteps
    /\ pc \in PreStep \cup {"record"} => iter = loopIter - 1
    /\ pc \in (PostStep \ {"record"}) \cup LoopBoundary => iter = loopIter
    /\ pc \in PreStep \cup PostStep => nSched = loopIter - 1
    /\ pc \in LoopBoundary =>
          iter = nSteps /\ iter = nSched /\ iter = nSrc
    /\ pc = "done" => iter = opt.epochs * datasets.target

RunCompleted ==
    /\ pc = "done"
    /\ opt.epochs = 2 /\ datasets.target = 2
    /\ iter = 4 /\ nSched = 4
    /\ valCalls # {} /\ logLines # <<>>

\* C9: both timing meters are reset right after each log emission and at no
\* other time, so at every log emission each holds one sample per iteration
\* run since the previous emission (or the start), which is at least one.
MetersResetOnLog ==
    /\ infer_time_meter.count = iter - lastLogIter
    /\ loader_time_meter.count = iter - lastLogIter
    /\ pc = "log" => infer_time_meter.count >= 1 /\ loader_time_meter.count >= 1
    /\ (pc \in PostStep \ {"record", "log"} /\ lastLogIter = iter) =>
          infer_time_meter = [val |-> 0, avg |-> 0, sum |-> 0, count |-> 0]
          /\ loader_time_meter = [val |-> 0, avg |-> 0, sum |-> 0, count |-> 0]
    /\ \A i \in 1..Len(logLines) :
          LET since == logLines[i].loop - (IF i = 1 THEN 0 ELSE logLines[i-1].loop)
          IN  /\ since >= 1
              /\ logLines[i].inferCount = since
              /\ logLines[i].loadCount = since

LogOverTwoIterations ==
    /\ Len(logLines) >= 2
    /\ logLines[2].inferCount = 2 /\ logLines[2].loadCount = 2
    /\ infer_time_meter.count = 0 /\ loader_time_meter.sum = 0

\* C10: every stage step runs in training mode, also after a validation:
\* validation() leaves the model in evaluation mode and the driver switches
\* back at the start of each iteration; every inference pass of validate()
\* runs in evaluation mode.
ModeDiscipline ==
    /\ stepModes \subseteq {"train"}
    /\ inferModes \subseteq {"eval"}
    /\ pc \in {"zerograd", "step", "record", "log", "eval_check"} => mode = "train"
    /\ pc \in {"validate", "save_current", "best_check", "val_return"} => mode = "eval"
    /\ pc \in {"sched"} \cup LoopBoundary /\ loopIter \in valCalls => mode = "eval"
    /\ pc \in {"source_next", "train_mode"} /\ loopIter - 1 \in valCalls => mode = "eval"

StepAfterValidation ==
    /\ pc = "record"
    /\ loopIter - 1 \in valCalls
    /\ mode = "train"
    /\ inferModes = {"eval"}

====
